---------------------------- MODULE Spec2Model ----------------------------
(***************************************************************************)
(* A model of the PeriAI request handlers: the inquiry chat (create, chat  *)
(* message, close, idle cron, status update) and the campaign pipeline     *)
(* (create, process, status PATCH with automated outreach) over the        *)
(* storage layer of api/_lib/storage.ts.                                   *)
(*                                                                         *)
(* The database tables are sequences; a row's id is its index.  A handler  *)
(* is a pure operator from the database and the request to the database    *)
(* it leaves and the response it answers; an action applies one handler    *)
(* as a whole.  Every LLM call is an input with three outcomes: it throws, *)
(* it returns no content, or it returns a text.                            *)
(***************************************************************************)
EXTENDS Integers, Sequences, FiniteSets, TLC

VARIABLES inquiries, messages, campaigns, now, cronSecret, last, inflight

vars == <<inquiries, messages, campaigns, now, cronSecret, last, inflight>>

(***************************************************************************)
(* Bounds of the model.                                                    *)
(***************************************************************************)
MaxInquiries == 2
MaxMessages == 4
MaxCampaigns == 2
MaxOutreachCampaigns == 1
MaxTime == 10

\* SQL NULL / JavaScript undefined for a text value.
NULL == "null"

(***************************************************************************)
(* The users table (part_000, users) and influencer_preferences.  Users    *)
(* are not created by the handlers modelled here: the table is fixed.      *)
(***************************************************************************)
Influencers == {"inf1", "inf2"}
Businesses == {"biz1", "biz2"}
UserIds == Influencers \cup Businesses

users ==
  [u \in UserIds |->
     [userType |-> IF u \in Businesses THEN "business" ELSE "influencer",
      email |-> IF u = "biz2" THEN NULL ELSE u,
      languagePreference |-> IF u = "inf2" THEN "zh" ELSE "en"]]

SupportedLanguage == {"en", "zh"}

\* The language of a request body: absent (or anything else) or a supported
\* one; the model sends none or "en" (the influencer rows prefer "en" and "zh").
RequestLanguages == {NULL, "en"}

(***************************************************************************)
(* api/_lib/aiAgent.ts                                                     *)
(***************************************************************************)
FALLBACK_INQUIRY_RESPONSE ==
  [en |-> "Thanks for reaching out! What's your budget for this and what's the timeline?",
   zh |-> "zh: Thanks for reaching out! ..."]
FALLBACK_CHAT_RESPONSE ==
  [en |-> "Could you elaborate on that?", zh |-> "zh: Could you elaborate on that?"]
FALLBACK_RECOMMENDATION ==
  [en |-> "**NEEDS INFO** Unable to generate a recommendation.",
   zh |-> "zh: **NEEDS INFO** Unable to generate a recommendation."]
FALLBACK_CAMPAIGN_MESSAGE == "We'd love to collaborate on this campaign."

\* What one chat-completion call can do: throw, or return this content
\* ("" is a completion without content).
LLMThrow == "<the call throws>"
LLMOutcomes(text) == {LLMThrow, "", text}

\* completion.choices[0]?.message?.content || fallback, inside try/catch.
ContentOr(out, fallback) ==
  IF out = LLMThrow \/ out = "" THEN fallback ELSE out

generateInquiryResponse(out, language) == ContentOr(out, FALLBACK_INQUIRY_RESPONSE[language])

generateChatResponse(out, language) == ContentOr(out, FALLBACK_CHAT_RESPONSE[language])

\* Mutant: only a throw falls back; a completion without content is returned.
generateRecommendationThrowOnly(out, language) ==
  IF out = LLMThrow THEN FALLBACK_RECOMMENDATION[language] ELSE out

generateRecommendation(out, language) == ContentOr(out, FALLBACK_RECOMMENDATION[language])

\* requestLanguage ?? (languagePreference === 'zh' ? 'zh' : 'en')
resolvedLanguage(requestLanguage, influencerId) ==
  IF requestLanguage # NULL THEN requestLanguage
  ELSE IF influencerId \in UserIds /\ users[influencerId].languagePreference = "zh"
       THEN "zh" ELSE "en"

(***************************************************************************)
(* api/_lib/storage.ts: each operator maps a database to the database      *)
(* after the statement.                                                    *)
(***************************************************************************)
Db == [inquiries |-> inquiries, messages |-> messages, campaigns |-> campaigns]

inquiryExists(db, id) == id \in 1..Len(db.inquiries)

getInquiry(db, id) == db.inquiries[id]

createInquiry(db, payload, t) ==
  [db EXCEPT !.inquiries =
     Append(@, [influencerId |-> payload.influencerId,
                businessId |-> payload.businessId,
                campaignId |-> payload.campaignId,
                businessEmail |-> payload.businessEmail,
                message |-> payload.message,
                status |-> "pending",
                chatActive |-> TRUE,
                aiResponse |-> NULL,
                aiRecommendation |-> NULL,
                lastBusinessMessageAt |-> t])]

\* .set({ status, aiResponse }): an undefined aiResponse leaves the column.
updateInquiryStatus(db, id, status, aiResponse) ==
  [db EXCEPT !.inquiries[id] =
     [@ EXCEPT !.status = status,
               !.aiResponse = IF aiResponse = NULL THEN @ ELSE aiResponse]]

\* Mutant: ai_recommendation is not written.
closeInquiryChatFlagOnly(db, id, aiRecommendation) ==
  [db EXCEPT !.inquiries[id].chatActive = FALSE]

closeInquiryChat(db, id, aiRecommendation) ==
  [db EXCEPT !.inquiries[id] =
     [@ EXCEPT !.chatActive = FALSE, !.aiRecommendation = aiRecommendation]]

\* Mutant: the timestamp is not written.
updateLastBusinessMessageSkipped(db, id, t) == db

updateLastBusinessMessage(db, id, t) ==
  [db EXCEPT !.inquiries[id].lastBusinessMessageAt = t]

\* Mutant: lt instead of lte.
idleOpenIdsStrict(db, threshold) ==
  {i \in 1..Len(db.inquiries) :
     /\ db.inquiries[i].chatActive = TRUE
     /\ db.inquiries[i].lastBusinessMessageAt < threshold}

\* The ids of the rows with chat_active, last_business_message_at <= threshold.
\* (The column is set by every insert, so isNotNull holds of every row.)
idleOpenIds(db, threshold) ==
  {i \in 1..Len(db.inquiries) :
     /\ db.inquiries[i].chatActive = TRUE
     /\ db.inquiries[i].lastBusinessMessageAt <= threshold}

RECURSIVE orderByLastMessageDesc(_, _)
orderByLastMessageDesc(db, ids) ==
  IF ids = {} THEN <<>>
  ELSE LET first == CHOOSE i \in ids :
                      \A j \in ids :
                        \/ db.inquiries[i].lastBusinessMessageAt > db.inquiries[j].lastBusinessMessageAt
                        \/ /\ db.inquiries[i].lastBusinessMessageAt = db.inquiries[j].lastBusinessMessageAt
                           /\ i <= j
       IN <<first>> \o orderByLastMessageDesc(db, ids \ {first})

getIdleOpenInquiries(db, threshold) ==
  orderByLastMessageDesc(db, idleOpenIds(db, threshold))

getMessagesByInquiry(db, inquiryId) ==
  SelectSeq(db.messages, LAMBDA m : m.inquiryId = inquiryId)

addMessage(db, message) == [db EXCEPT !.messages = Append(@, message)]

(***************************************************************************)
(* api/inquiries/[id]/messages/index.ts, handlePost                        *)
(***************************************************************************)
Respond(db, code, message) == [db |-> db, code |-> code, message |-> message]

\* Mutant: the chatActive check is missing.
handlePostNoActiveCheck(db, id, content, requestLanguage, out, t) ==
  IF content = "" THEN Respond(db, 400, "Message content is required")
  ELSE IF ~inquiryExists(db, id) THEN Respond(db, 404, "Inquiry not found")
  ELSE
    LET inquiry == getInquiry(db, id)
        db1 == addMessage(db, [inquiryId |-> id, role |-> "user", content |-> content])
        db2 == updateLastBusinessMessage(db1, id, t)
        language == resolvedLanguage(requestLanguage, inquiry.influencerId)
        db3 == addMessage(db2, [inquiryId |-> id, role |-> "assistant",
                                content |-> generateChatResponse(out, language)])
    IN Respond(db3, 200, "ok")

handlePost(db, id, content, requestLanguage, out, t) ==
  IF content = "" THEN Respond(db, 400, "Message content is required")
  ELSE IF ~inquiryExists(db, id) THEN Respond(db, 404, "Inquiry not found")
  ELSE IF ~getInquiry(db, id).chatActive
    THEN Respond(db, 400, "This conversation has been closed")
  ELSE
    LET inquiry == getInquiry(db, id)
        db1 == addMessage(db, [inquiryId |-> id, role |-> "user", content |-> content])
        db2 == updateLastBusinessMessage(db1, id, t)
        language == resolvedLanguage(requestLanguage, inquiry.influencerId)
        aiResponseContent == generateChatResponse(out, language)
        db3 == addMessage(db2, [inquiryId |-> id, role |-> "assistant",
                                content |-> aiResponseContent])
    IN Respond(db3, 200, "ok")

(***************************************************************************)
(* api/inquiries/[id]/close.ts, handler                                    *)
(***************************************************************************)
\* Mutant: an already closed chat is closed again.
closeHandlerRecloses(db, id, requestLanguage, out) ==
  IF ~inquiryExists(db, id)
    THEN [db |-> db, code |-> 404, inquiry |-> <<>>]
  ELSE
    LET inquiry == getInquiry(db, id)
        language == resolvedLanguage(requestLanguage, inquiry.influencerId)
        db1 == closeInquiryChat(db, id, generateRecommendation(out, language))
    IN [db |-> db1, code |-> 200, inquiry |-> <<getInquiry(db1, id)>>]

\* The response carries the inquiry it answers with (<<>>: none).
closeHandler(db, id, requestLanguage, out) ==
  IF ~inquiryExists(db, id)
    THEN [db |-> db, code |-> 404, inquiry |-> <<>>]
  ELSE IF ~getInquiry(db, id).chatActive
    THEN [db |-> db, code |-> 200, inquiry |-> <<getInquiry(db, id)>>]
  ELSE
    LET inquiry == getInquiry(db, id)
        language == resolvedLanguage(requestLanguage, inquiry.influencerId)
        recommendation == generateRecommendation(out, language)
        db1 == closeInquiryChat(db, id, recommendation)
    IN [db |-> db1, code |-> 200, inquiry |-> <<getInquiry(db1, id)>>]

(***************************************************************************)
(* api/cron/close-idle-chats.ts                                            *)
(***************************************************************************)
IDLE_MINUTES == 10

\* The clock of the model advances in steps of half the idle threshold.
TickMinutes == IDLE_MINUTES \div 2

\* An Authorization header is absent (<<>>) or a tuple of its words.
Bearer(secret) == <<"Bearer", secret>>

\* Mutant: an unset secret is not rejected first.
getAuthorizedUnsetPasses(secret, authorization, querySecret) ==
  IF authorization = Bearer(secret) THEN TRUE
  ELSE querySecret = secret

getAuthorized(secret, authorization, querySecret) ==
  IF secret = NULL \/ secret = "" THEN FALSE
  ELSE IF authorization = Bearer(secret) THEN TRUE
  ELSE querySecret = secret

\* What the loop body does for one idle inquiry: a storage call throws, or
\* the recommendation call ends as `out` and the chat is closed.
StorageThrows == "<a storage call throws>"

\* The loop over the scanned inquiries; acc is [db, closed, failed].
RECURSIVE closeIdleLoop(_, _, _)
closeIdleLoop(acc, idleInquiries, oc) ==
  IF idleInquiries = <<>> THEN acc
  ELSE
    LET id == Head(idleInquiries)
        inquiry == getInquiry(acc.db, id)
        language == IF users[inquiry.influencerId].languagePreference = "zh"
                    THEN "zh" ELSE "en"
        next ==
          IF oc[id] = StorageThrows
          THEN [acc EXCEPT !.failed = @ \cup {id}]
          ELSE [acc EXCEPT
                  !.db = closeInquiryChat(@, id, generateRecommendation(oc[id], language)),
                  !.closed = @ \cup {id}]
    IN closeIdleLoop(next, Tail(idleInquiries), oc)

cronHandler(db, method, secret, authorization, querySecret, oc, t) ==
  IF method \notin {"POST", "GET"}
    THEN [db |-> db, code |-> 405, closed |-> {}, failed |-> {}]
  ELSE IF ~getAuthorized(secret, authorization, querySecret)
    THEN [db |-> db, code |-> 401, closed |-> {}, failed |-> {}]
  ELSE
    LET threshold == t - IDLE_MINUTES
        idleInquiries == getIdleOpenInquiries(db, threshold)
        done == closeIdleLoop([db |-> db, closed |-> {}, failed |-> {}], idleInquiries, oc)
    IN [db |-> done.db, code |-> 200, closed |-> done.closed, failed |-> done.failed]

(***************************************************************************)
(* api/inquiries (part_003), handlePost: the public inquiry POST           *)
(***************************************************************************)
\* Mutant: the payload keeps the businessId of the validated body when the
\* session user is no business.
inquiryPostKeepsBodyBusiness(db, sessionUser, body, requestLanguage, out, t) ==
  IF ~body.valid THEN Respond(db, 400, "validation")
  ELSE
    LET isBusinessUser == sessionUser # NULL /\ users[sessionUser].userType = "business"
        inquiryPayload ==
          [influencerId |-> body.influencerId,
           campaignId |-> body.campaignId,
           message |-> body.message,
           businessId |-> IF isBusinessUser THEN sessionUser ELSE body.businessId,
           businessEmail |-> IF isBusinessUser /\ users[sessionUser].email # NULL
                             THEN users[sessionUser].email ELSE body.businessEmail]
        db1 == createInquiry(db, inquiryPayload, t)
        id == Len(db1.inquiries)
        language == resolvedLanguage(requestLanguage, body.influencerId)
        aiResponse == generateInquiryResponse(out, language)
        db2 == updateInquiryStatus(db1, id, "pending", aiResponse)
        db3 == addMessage(db2, [inquiryId |-> id, role |-> "assistant",
                                content |-> aiResponse])
    IN Respond(db3, 200, aiResponse)

\* The validated body may name a businessId (the schema keeps the column);
\* the payload's businessId key replaces it, by the session user's id or by
\* undefined.
inquiryPost(db, sessionUser, body, requestLanguage, out, t) ==
  IF ~body.valid THEN Respond(db, 400, "validation")
  ELSE
    LET isBusinessUser == sessionUser # NULL /\ users[sessionUser].userType = "business"
        inquiryPayload ==
          [influencerId |-> body.influencerId,
           campaignId |-> body.campaignId,
           message |-> body.message,
           businessId |-> IF isBusinessUser THEN sessionUser ELSE NULL,
           businessEmail |-> IF isBusinessUser /\ users[sessionUser].email # NULL
                             THEN users[sessionUser].email ELSE body.businessEmail]
        db1 == createInquiry(db, inquiryPayload, t)
        id == Len(db1.inquiries)
        language == resolvedLanguage(requestLanguage, body.influencerId)
        aiResponse == generateInquiryResponse(out, language)
        db2 == updateInquiryStatus(db1, id, "pending", aiResponse)
        db3 == addMessage(db2, [inquiryId |-> id, role |-> "assistant",
                                content |-> aiResponse])
    IN Respond(db3, 200, aiResponse)

(***************************************************************************)
(* api/inquiries/[id]/status.ts, with storage.updateCampaignStatus         *)
(***************************************************************************)
campaignExists(db, id) == id \in 1..Len(db.campaigns)

getCampaign(db, id) == db.campaigns[id]

\* Mutant: the campaign row is not written.
updateCampaignStatusLost(db, id, status) == db

updateCampaignStatus(db, id, status) ==
  IF campaignExists(db, id)
  THEN [db EXCEPT !.campaigns[id].status = status]
  ELSE db

InquiryStatuses == {"pending", "approved", "rejected", "needs_info"}

\* What the notification email does: it is delivered, the send throws, or
\* it is still pending when the 5 second timer rejects.
EmailOutcomes == {"delivered", "throws", "timeout"}

\* Mutant: the email send is awaited outside the try, so that its failure
\* reaches the handler's catch.
statusHandlerEmailDecides(db, userId, id, status, message, emailOut) ==
  IF status \notin InquiryStatuses
    THEN [db |-> db, code |-> 400, email |-> "none", inquiry |-> <<>>]
  ELSE IF ~inquiryExists(db, id)
    THEN [db |-> db, code |-> 404, email |-> "none", inquiry |-> <<>>]
  ELSE
    LET inquiry == getInquiry(db, id)
        db1 == updateInquiryStatus(db, id, status, message)
        db2 == IF inquiry.campaignId # 0
               THEN IF status = "approved"
                      THEN updateCampaignStatus(db1, inquiry.campaignId, "deal")
                    ELSE IF status = "rejected"
                      THEN updateCampaignStatus(db1, inquiry.campaignId, "denied")
                    ELSE db1
               ELSE db1
        email == IF status # "pending" /\ userId \in UserIds /\ inquiry.businessEmail # ""
                 THEN emailOut ELSE "none"
    IN IF email \in {"throws", "timeout"}
       THEN [db |-> db2, code |-> 500, email |-> email, inquiry |-> <<>>]
       ELSE [db |-> db2, code |-> 200, email |-> email,
             inquiry |-> <<getInquiry(db1, id)>>]

\* The response carries the updated inquiry (<<>>: none); email is what the
\* notification did, "none" when it is not sent.
statusHandler(db, userId, id, status, message, emailOut) ==
  IF status \notin InquiryStatuses
    THEN [db |-> db, code |-> 400, email |-> "none", inquiry |-> <<>>]
  ELSE IF ~inquiryExists(db, id)
    THEN [db |-> db, code |-> 404, email |-> "none", inquiry |-> <<>>]
  ELSE
    LET inquiry == getInquiry(db, id)
        db1 == updateInquiryStatus(db, id, status, message)
        db2 == IF inquiry.campaignId # 0
               THEN IF status = "approved"
                      THEN updateCampaignStatus(db1, inquiry.campaignId, "deal")
                    ELSE IF status = "rejected"
                      THEN updateCampaignStatus(db1, inquiry.campaignId, "denied")
                    ELSE db1
               ELSE db1
        email == IF status # "pending" /\ userId \in UserIds /\ inquiry.businessEmail # ""
                 THEN emailOut ELSE "none"
    IN [db |-> db2, code |-> 200, email |-> email,
        inquiry |-> <<getInquiry(db1, id)>>]

(***************************************************************************)
(* api/business/campaigns/index.ts: campaign create                        *)
(***************************************************************************)
createCampaign(db, campaign, t) ==
  [db EXCEPT !.campaigns =
     Append(@, [businessId |-> campaign.businessId,
                status |-> "processing",
                searchCriteria |-> <<>>,
                matchedInfluencers |-> <<>>,
                createdAt |-> t])]

\* insertCampaignSchema.safeParse: the schema omits status (with id, the
\* search columns and the timestamps), so the parsed data has none.
insertCampaignSchema(raw) == [businessId |-> raw.businessId]

\* normalizeCampaignInput keeps data.businessId whatever the LLM returns.
normalizeCampaignInput(data) == [businessId |-> data.businessId]

\* Mutant: {businessId: user.id, ...rawBody}, the body's businessId wins.
createCampaignHandlerBodyWins(db, userId, body, t) ==
  IF users[userId].userType # "business" THEN Respond(db, 403, "Business access required")
  ELSE IF ~body.valid THEN Respond(db, 400, "validation")
  ELSE
    LET data == insertCampaignSchema(
                  [body EXCEPT !.businessId = IF @ = NULL THEN userId ELSE @])
        normalized == normalizeCampaignInput(data)
    IN IF ~body.normalizedValid THEN Respond(db, 400, "validation")
       ELSE Respond(createCampaign(db, insertCampaignSchema(normalized), t),
                    201, "created")

\* The body carries valid (its fields pass the schema), normalizedValid (the
\* normalised fields pass it again), and the status and businessId it names
\* (NULL: none).  safeParse({...rawBody, businessId: user.id}) overwrites
\* the body's businessId.
createCampaignHandler(db, userId, body, t) ==
  IF users[userId].userType # "business" THEN Respond(db, 403, "Business access required")
  ELSE IF ~body.valid THEN Respond(db, 400, "validation")
  ELSE
    LET data == insertCampaignSchema([body EXCEPT !.businessId = userId])
        normalized == normalizeCampaignInput(data)
    IN IF ~body.normalizedValid THEN Respond(db, 400, "validation")
       ELSE Respond(createCampaign(db, insertCampaignSchema(normalized), t),
                    201, "created")

(***************************************************************************)
(* api/business/campaigns/process.ts                                       *)
(***************************************************************************)
\* search_criteria and matched_influencers hold null (<<>>) or a value: a
\* text <<"text", t>>, a serialised object, or the array <<list>>.
SqlNull == <<>>
Text(t) == <<"text", t>>
JsonArray(list) == <<list>>

\* WHERE business_id = ? AND status = 'processing' ORDER BY created_at LIMIT 1:
\* the rows the query can return (several when the oldest tie).
\* Mutant: ORDER BY created_at DESC.
getNewestProcessingCampaign(db, businessId) ==
  LET mine == {c \in 1..Len(db.campaigns) :
                 /\ db.campaigns[c].businessId = businessId
                 /\ db.campaigns[c].status = "processing"}
  IN {c \in mine : \A d \in mine : db.campaigns[c].createdAt >= db.campaigns[d].createdAt}

getOldestProcessingCampaign(db, businessId) ==
  LET mine == {c \in 1..Len(db.campaigns) :
                 /\ db.campaigns[c].businessId = businessId
                 /\ db.campaigns[c].status = "processing"}
  IN {c \in mine : \A d \in mine : db.campaigns[c].createdAt <= db.campaigns[d].createdAt}

\* searchCriteria: data.searchCriteria ?? null, matchedInfluencers: ... ?? null
saveCampaignSearchResult(db, id, status, searchCriteria, matchedInfluencers) ==
  [db EXCEPT !.campaigns[id] =
     [@ EXCEPT !.status = status,
               !.searchCriteria = searchCriteria,
               !.matchedInfluencers = matchedInfluencers]]

\* completion.choices?.[0]?.message?.content?.trim() || null
generateCriteria(out) == IF out = LLMThrow \/ out = "" THEN NULL ELSE out

\* The filter objects the extraction call is given to return here; a
\* missing languages is <<>>, a missing maxBudget is 0.
NoFilter == [isNull |-> TRUE, languages |-> <<>>, maxBudget |-> 0]
Filter(languages, maxBudget) ==
  [isNull |-> FALSE, languages |-> languages, maxBudget |-> maxBudget]

extractFilters(criteriaText, out) ==
  IF criteriaText = NULL THEN NoFilter
  ELSE IF out.throws THEN NoFilter
  ELSE out.parsed

\* JSON.stringify of a filter object: its keys, without the model's isNull.
JSONstringify(filters) == <<"json", filters.languages, filters.maxBudget>>

\* The influencer rows, newest first (ORDER BY created_at DESC), with the
\* monetary baseline of influencer_preferences (left join: none is 0).
influencerRows ==
  << [id |-> "inf2", firstName |-> <<>>, lastName |-> <<>>,
      username |-> <<"T", "e", "s", "t", "2">>, baseline |-> 0],
     [id |-> "inf1", firstName |-> <<"a", "n">>, lastName |-> <<>>,
      username |-> <<"a">>, baseline |-> 500] >>

\* [firstName, lastName].filter(Boolean).join(' ') || username || undefined
fullName(r) ==
  LET joined == IF r.firstName # <<>> /\ r.lastName # <<>>
                  THEN r.firstName \o <<" ">> \o r.lastName
                ELSE IF r.firstName # <<>> THEN r.firstName
                ELSE r.lastName
  IN IF joined # <<>> THEN joined ELSE r.username

findInfluencers(filters) ==
  LET languageOk(r) ==
        \/ filters.isNull
        \/ filters.languages = <<>>
        \/ users[r.id].languagePreference =
             (IF filters.languages[1] = "zh" THEN "zh" ELSE "en")
      budgetOk(r) ==
        \/ filters.isNull
        \/ ~(filters.maxBudget # 0 /\ r.baseline > filters.maxBudget)
      rows == SelectSeq(influencerRows, LAMBDA r : languageOk(r) /\ budgetOk(r))
  IN [k \in 1..Len(rows) |->
        [id |-> rows[k].id, username |-> rows[k].username, name |-> fullName(rows[k])]]

\* String.prototype.toLowerCase, trim and includes on character sequences.
lowerChar(c) ==
  IF c = "T" THEN "t" ELSE IF c = "E" THEN "e" ELSE IF c = "S" THEN "s" ELSE c

toLowerCase(str) == [k \in 1..Len(str) |-> lowerChar(str[k])]

RECURSIVE trimStart(_)
trimStart(str) ==
  IF str # <<>> /\ Head(str) = " " THEN trimStart(Tail(str)) ELSE str

RECURSIVE trimEnd(_)
trimEnd(str) ==
  IF str # <<>> /\ str[Len(str)] = " " THEN trimEnd(SubSeq(str, 1, Len(str) - 1)) ELSE str

trim(str) == trimEnd(trimStart(str))

includes(str, sub) ==
  \E k \in 1..(Len(str) - Len(sub) + 1) : SubSeq(str, k, k + Len(sub) - 1) = sub

\* Array.prototype.sort with (a, b) => b.score - a.score: stable, so equal
\* scores keep their order.  Insertion from the right keeps it.
\* Mutant: a row goes behind the rows of its score that follow it.
RECURSIVE insertByScoreBehindEqual(_, _)
insertByScoreBehindEqual(row, sorted) ==
  IF sorted = <<>> THEN <<row>>
  ELSE IF Head(sorted).score >= row.score
    THEN <<Head(sorted)>> \o insertByScoreBehindEqual(row, Tail(sorted))
  ELSE <<row>> \o sorted

RECURSIVE insertByScore(_, _)
insertByScore(row, sorted) ==
  IF sorted = <<>> THEN <<row>>
  ELSE IF Head(sorted).score > row.score
    THEN <<Head(sorted)>> \o insertByScore(row, Tail(sorted))
  ELSE <<row>> \o sorted

RECURSIVE sortByScoreDesc(_)
sortByScoreDesc(rows) ==
  IF rows = <<>> THEN <<>>
  ELSE insertByScore(Head(rows), sortByScoreDesc(Tail(rows)))

\* rankedMap.get(id)?.score ?? 0: forEach with Map.set keeps the last item
\* of an id; an item without score counts 0.
baseScore(ranked, id) ==
  LET at == {k \in 1..Len(ranked) : ranked[k].id = id}
  IN IF at = {} THEN 0
     ELSE LET k == CHOOSE x \in at : \A y \in at : y <= x
          IN IF ranked[k].score = <<>> THEN 0 ELSE ranked[k].score[1]

adjustedScore(inf, ranked) ==
  LET displayName == toLowerCase(trim(IF inf.name # <<>> THEN inf.name ELSE inf.username))
      isUnknown == Len(displayName) = 0
      isTestName == includes(displayName, <<"t", "e", "s", "t">>)
  IN IF isUnknown THEN -2 ELSE IF isTestName THEN -1 ELSE baseScore(ranked, inf.id)

rerankInfluencers(criteria, influencers, out) ==
  IF criteria = NULL \/ Len(influencers) = 0 THEN influencers
  ELSE IF out.throws THEN influencers
  ELSE sortByScoreDesc(
         [k \in 1..Len(influencers) |->
            [id |-> influencers[k].id, username |-> influencers[k].username,
             name |-> influencers[k].name,
             score |-> adjustedScore(influencers[k], out.ranked)]])

\* The handler; candidate is the row getOldestProcessingCampaign returned
\* (0: none) and fail the storage call that throws ("none": no call).
processHandler(db, userId, candidate, critOut, filterOut, rankOut, fail) ==
  IF users[userId].userType # "business" THEN Respond(db, 403, "Business access required")
  ELSE IF fail = "getOldestProcessingCampaign" THEN Respond(db, 500, "Failed to process campaign")
  ELSE IF candidate = 0 THEN Respond(db, 404, "No campaigns to process")
  ELSE IF fail = "saveCampaignSearchResult(processing)"
    THEN Respond(db, 500, "Failed to process campaign")
  ELSE
    LET db1 == saveCampaignSearchResult(db, candidate, "processing", SqlNull, SqlNull)
        criteria == generateCriteria(critOut)
        filters == extractFilters(criteria, filterOut)
        influencers == findInfluencers(filters)
        ranked == rerankInfluencers(criteria, influencers, rankOut)
        searchCriteria ==
          IF ~filters.isNull THEN JSONstringify(filters)
          ELSE IF criteria # NULL THEN Text(criteria)
          ELSE Text("No criteria generated")
        db2 == saveCampaignSearchResult(db1, candidate, "waiting_approval",
                                        searchCriteria, JsonArray(ranked))
    IN IF fail = "saveCampaignSearchResult(waiting_approval)"
       THEN Respond(db1, 500, "Failed to process campaign")
       ELSE Respond(db2, 200, "ok")

(***************************************************************************)
(* api/business/campaigns/index.ts: autoSendInquiriesForCampaign and the   *)
(* campaign status PATCH                                                   *)
(***************************************************************************)
\* parsed.message (trimmed, non-empty) or the fallback message.
draftInquiryFromCampaign(out) == ContentOr(out, FALLBACK_CAMPAIGN_MESSAGE)

resolveLanguage(userId) ==
  IF userId \in UserIds /\ users[userId].languagePreference = "zh" THEN "zh" ELSE "en"

\* The storage call of one loop iteration that throws ("none": no call).
\* A throw of the reads before createInquiry leaves what a throw of
\* createInquiry leaves, and one of getMessagesByInquiry what a throw of
\* closeInquiryChat leaves.
OutreachFailPoints ==
  {"none", "createInquiry", "addMessage(user)", "updateInquiryStatus",
   "addMessage(assistant)", "closeInquiryChat"}

\* Mutant: created is incremented before closeInquiryChat.
outreachOneCountsEarly(db, campaignId, businessId, businessEmail, influencerId, o, t) ==
  LET language == resolveLanguage(influencerId)
      message == draftInquiryFromCampaign(o.draft)
      db1 == createInquiry(db, [influencerId |-> influencerId,
                                businessId |-> businessId,
                                campaignId |-> campaignId,
                                businessEmail |-> businessEmail,
                                message |-> message], t)
      id == Len(db1.inquiries)
      db2 == addMessage(db1, [inquiryId |-> id, role |-> "user", content |-> message])
      aiResponse == generateInquiryResponse(o.reply, language)
      db3 == updateInquiryStatus(db2, id, "pending", aiResponse)
      db4 == addMessage(db3, [inquiryId |-> id, role |-> "assistant",
                              content |-> aiResponse])
      recommendation == generateRecommendation(o.rec, language)
      db5 == closeInquiryChat(db4, id, recommendation)
  IN CASE o.failAt = "createInquiry" -> [db |-> db, created |-> 0]
       [] o.failAt = "addMessage(user)" -> [db |-> db1, created |-> 0]
       [] o.failAt = "updateInquiryStatus" -> [db |-> db2, created |-> 0]
       [] o.failAt = "addMessage(assistant)" -> [db |-> db3, created |-> 0]
       [] o.failAt = "closeInquiryChat" -> [db |-> db4, created |-> 1]
       [] OTHER -> [db |-> db5, created |-> 1]

\* One iteration of the loop body, try/catch included: [db, created].
outreachOne(db, campaignId, businessId, businessEmail, influencerId, o, t) ==
  LET language == resolveLanguage(influencerId)
      message == draftInquiryFromCampaign(o.draft)
      db1 == createInquiry(db, [influencerId |-> influencerId,
                                businessId |-> businessId,
                                campaignId |-> campaignId,
                                businessEmail |-> businessEmail,
                                message |-> message], t)
      id == Len(db1.inquiries)
      db2 == addMessage(db1, [inquiryId |-> id, role |-> "user", content |-> message])
      aiResponse == generateInquiryResponse(o.reply, language)
      db3 == updateInquiryStatus(db2, id, "pending", aiResponse)
      db4 == addMessage(db3, [inquiryId |-> id, role |-> "assistant",
                              content |-> aiResponse])
      recommendation == generateRecommendation(o.rec, language)
      db5 == closeInquiryChat(db4, id, recommendation)
  IN CASE o.failAt = "createInquiry" -> [db |-> db, created |-> 0]
       [] o.failAt = "addMessage(user)" -> [db |-> db1, created |-> 0]
       [] o.failAt = "updateInquiryStatus" -> [db |-> db2, created |-> 0]
       [] o.failAt = "addMessage(assistant)" -> [db |-> db3, created |-> 0]
       [] o.failAt = "closeInquiryChat" -> [db |-> db4, created |-> 0]
       [] OTHER -> [db |-> db5, created |-> 1]

RECURSIVE outreachLoop(_, _, _, _, _, _, _, _)
outreachLoop(acc, campaignId, businessId, businessEmail, matches, k, oc, t) ==
  IF k > Len(matches) THEN acc
  ELSE
    LET one == outreachOne(acc.db, campaignId, businessId, businessEmail,
                           matches[k].id, oc[k], t)
    IN outreachLoop([db |-> one.db, created |-> acc.created + one.created],
                    campaignId, businessId, businessEmail, matches, k + 1, oc, t)

\* campaign is the row read before the status update.
autoSendInquiriesForCampaign(db, campaignId, campaign, businessUser, oc, t) ==
  LET matches == IF campaign.matchedInfluencers = SqlNull THEN <<>>
                 ELSE campaign.matchedInfluencers[1]
      businessEmail == users[businessUser].email
  IN IF Len(matches) = 0 THEN [db |-> db, created |-> 0]
     ELSE IF businessEmail = NULL THEN [db |-> db, created |-> 0]
     ELSE outreachLoop([db |-> db, created |-> 0], campaignId, campaign.businessId,
                       businessEmail, matches, 1, oc, t)

\* Mutant: "processing" is an allowed target status.
PatchStatusesWithProcessing ==
  {"processing", "waiting_approval", "negotiating", "waiting_response", "deal", "denied"}

PatchStatuses == {"waiting_approval", "negotiating", "waiting_response", "deal", "denied"}

\* Mutant: the stored status is not compared; every PATCH to "negotiating"
\* runs the outreach.
campaignStatusHandlerNoPrevious(db, userId, id, status, oc, t) ==
  IF users[userId].userType # "business"
    THEN [db |-> db, code |-> 403, outreach |-> FALSE, created |-> 0]
  ELSE IF status \notin PatchStatuses
    THEN [db |-> db, code |-> 400, outreach |-> FALSE, created |-> 0]
  ELSE IF ~campaignExists(db, id) \/ getCampaign(db, id).businessId # userId
    THEN [db |-> db, code |-> 404, outreach |-> FALSE, created |-> 0]
  ELSE
    LET campaign == getCampaign(db, id)
        db1 == updateCampaignStatus(db, id, status)
    IN IF status = "negotiating"
       THEN LET sent == autoSendInquiriesForCampaign(db1, id, campaign, userId, oc, t)
            IN IF sent.created > 0
               THEN [db |-> updateCampaignStatus(sent.db, id, "waiting_response"),
                     code |-> 200, outreach |-> TRUE, created |-> sent.created]
               ELSE [db |-> sent.db, code |-> 200, outreach |-> TRUE, created |-> 0]
       ELSE [db |-> db1, code |-> 200, outreach |-> FALSE, created |-> 0]

campaignStatusHandler(db, userId, id, status, oc, t) ==
  IF users[userId].userType # "business"
    THEN [db |-> db, code |-> 403, outreach |-> FALSE, created |-> 0]
  ELSE IF status \notin PatchStatuses
    THEN [db |-> db, code |-> 400, outreach |-> FALSE, created |-> 0]
  ELSE IF ~campaignExists(db, id) \/ getCampaign(db, id).businessId # userId
    THEN [db |-> db, code |-> 404, outreach |-> FALSE, created |-> 0]
  ELSE
    LET campaign == getCampaign(db, id)
        previousStatus == campaign.status
        db1 == updateCampaignStatus(db, id, status)
    IN IF status = "negotiating" /\ previousStatus # "negotiating"
       THEN LET sent == autoSendInquiriesForCampaign(db1, id, campaign, userId, oc, t)
            IN IF sent.created > 0
               THEN [db |-> updateCampaignStatus(sent.db, id, "waiting_response"),
                     code |-> 200, outreach |-> TRUE, created |-> sent.created]
               ELSE [db |-> sent.db, code |-> 200, outreach |-> TRUE, created |-> 0]
       ELSE [db |-> db1, code |-> 200, outreach |-> FALSE, created |-> 0]

(***************************************************************************)
(* The requests the model sends, and the state machine.                    *)
(***************************************************************************)
CronSecrets == {NULL, "s3cret"}
Methods == {"GET", "POST", "DELETE"}
AuthorizationHeaders == {<<>>, Bearer("s3cret"), Bearer("guess"), <<"s3cret">>}
QuerySecrets == {NULL, "s3cret", "guess"}

Contents == {"", "hello"}

ChatOutcomes == LLMOutcomes("Got it on the timeline.")
InquiryOutcomes == LLMOutcomes("Hey! Thanks for reaching out.")
RecommendationOutcomes == LLMOutcomes("**APPROVE** good fit")
DraftOutcomes == {LLMThrow, "We would like you to post about our product."}
CriteriaOutcomes == LLMOutcomes("- fitness creators")

FilterOutcomes ==
  {[throws |-> TRUE, parsed |-> NoFilter],
   [throws |-> FALSE, parsed |-> Filter(<<>>, 0)],
   [throws |-> FALSE, parsed |-> Filter(<<"zh">>, 0)],
   [throws |-> FALSE, parsed |-> Filter(<<>>, 100)]}

RankOutcomes ==
  {[throws |-> TRUE, ranked |-> <<>>],
   [throws |-> FALSE, ranked |-> <<>>],
   [throws |-> FALSE, ranked |-> <<[id |-> "inf1", score |-> <<1>>]>>]}

\* The outcomes of one outreach iteration.  An LLM call that is not reached,
\* or whose text is never stored, before the failing storage call is fixed
\* to a throw: its outcome cannot show.
OutreachOutcomes ==
  {o \in [failAt : OutreachFailPoints, draft : DraftOutcomes,
          reply : {LLMThrow, "Hey! Thanks for reaching out."},
          rec : {LLMThrow, "**APPROVE** good fit"}] :
     /\ o.failAt = "createInquiry" => o.draft = LLMThrow
     /\ o.failAt \in {"createInquiry", "addMessage(user)", "updateInquiryStatus"}
          => o.reply = LLMThrow
     /\ o.failAt # "none" => o.rec = LLMThrow}

InBounds(db) ==
  /\ Len(db.inquiries) <= MaxInquiries
  /\ Len(db.messages) <= MaxMessages
  /\ Len(db.campaigns) <= MaxCampaigns

Commit(db) ==
  /\ InBounds(db)
  /\ inquiries' = db.inquiries
  /\ messages' = db.messages
  /\ campaigns' = db.campaigns

\* The requests that have started and not answered yet, each at the await
\* it is suspended at: one chat message POST, one close request, one cron
\* run.  pc "none": no such request is running.
NoRequests ==
  [post |-> [pc |-> "none", id |-> 0, content |-> ""],
   close |-> [pc |-> "none", id |-> 0],
   cron |-> [pc |-> "none", todo |-> <<>>]]

Init ==
  /\ inquiries = <<>>
  /\ messages = <<>>
  /\ campaigns = <<>>
  /\ now = 0
  /\ cronSecret \in CronSecrets
  /\ last = [op |-> "init"]
  /\ inflight = NoRequests

Tick ==
  /\ now + TickMinutes <= MaxTime
  /\ now' = now + TickMinutes
  /\ last' = [op |-> "tick"]
  /\ UNCHANGED <<inquiries, messages, campaigns, cronSecret, inflight>>

CreateInquiry(SessionUsers, Targets, Languages, Outcomes) ==
  \E sessionUser \in SessionUsers, valid \in BOOLEAN,
     influencerId \in Targets, campaignId \in 0..Len(campaigns),
     lang \in Languages, out \in Outcomes :
    LET body == [valid |-> valid, influencerId |-> influencerId,
                 campaignId |-> campaignId, businessId |-> NULL,
                 message |-> "brief", businessEmail |-> "guest"]
        r == inquiryPost(Db, sessionUser, body, lang, out, now)
    IN /\ Commit(r.db)
       /\ last' = [op |-> "createInquiry", code |-> r.code,
                   id |-> IF r.code = 200 THEN Len(r.db.inquiries) ELSE 0]
       /\ UNCHANGED <<now, cronSecret, inflight>>

PostMessage ==
  \E id \in 1..MaxInquiries, content \in Contents, lang \in RequestLanguages,
     out \in ChatOutcomes :
    LET r == handlePost(Db, id, content, lang, out, now)
    IN /\ Commit(r.db)
       /\ last' = [op |-> "postMessage", id |-> id, code |-> r.code,
                   message |-> r.message]
       /\ UNCHANGED <<now, cronSecret, inflight>>

CloseChat ==
  \E id \in 1..MaxInquiries, lang \in RequestLanguages, out \in RecommendationOutcomes :
    LET r == closeHandler(Db, id, lang, out)
    IN /\ Commit(r.db)
       /\ last' = [op |-> "close", id |-> id, code |-> r.code,
                   active |-> inquiryExists(Db, id) /\ getInquiry(Db, id).chatActive]
       /\ UNCHANGED <<now, cronSecret, inflight>>

CronRun ==
  \E method \in Methods, authorization \in AuthorizationHeaders,
     querySecret \in QuerySecrets :
   \E oc \in [IF method \in {"POST", "GET"}
                  /\ getAuthorized(cronSecret, authorization, querySecret)
               THEN idleOpenIds(Db, now - IDLE_MINUTES) ELSE {} ->
               RecommendationOutcomes \cup {StorageThrows}] :
    LET r == cronHandler(Db, method, cronSecret, authorization, querySecret, oc, now)
    IN /\ Commit(r.db)
       /\ last' = [op |-> "cron", code |-> r.code,
                   closed |-> r.closed, failed |-> r.failed]
       /\ UNCHANGED <<now, cronSecret, inflight>>

UpdateStatus(Notes) ==
  \E userId \in {"inf1"}, id \in 1..MaxInquiries,
     status \in InquiryStatuses \cup {"closed"}, message \in Notes,
     emailOut \in EmailOutcomes :
    LET r == statusHandler(Db, userId, id, status, message, emailOut)
    IN /\ Commit(r.db)
       /\ last' = [op |-> "status", id |-> id, status |-> status,
                   code |-> r.code, email |-> r.email]
       /\ UNCHANGED <<now, cronSecret, inflight>>

\* The bodies of a campaign create request: plain, or naming a status and
\* another business.
CampaignBodies ==
  {b \in [valid : BOOLEAN, normalizedValid : BOOLEAN,
          status : {NULL, "deal"}, businessId : {NULL, "biz2"}] :
     /\ ~b.valid => b.normalizedValid
     /\ (b.status = NULL) = (b.businessId = NULL)}

CreateCampaign(limit) ==
  \E userId \in {"biz1", "biz2", "inf1"}, body \in CampaignBodies :
    LET r == createCampaignHandler(Db, userId, body, now)
    IN /\ Len(r.db.campaigns) <= limit
       /\ Commit(r.db)
       /\ last' = [op |-> "createCampaign", userId |-> userId, code |-> r.code,
                   bodyStatus |-> body.status]
       /\ UNCHANGED <<now, cronSecret, inflight>>

ProcessFailPoints ==
  {"none", "getOldestProcessingCampaign", "saveCampaignSearchResult(processing)",
   "saveCampaignSearchResult(waiting_approval)"}

\* The LLM outcomes of one process request; a call that is not made (no
\* criteria: no extraction, no re-ranking) is fixed to a throw.
ProcessOutcomes ==
  {o \in [crit : CriteriaOutcomes, filter : FilterOutcomes, rank : RankOutcomes] :
     generateCriteria(o.crit) = NULL => (o.filter.throws /\ o.rank.throws)}

ProcessCampaign(Outcomes, FailPoints) ==
  \E userId \in {"biz1", "biz2", "inf1"}, fail \in FailPoints :
    \E candidate \in IF getOldestProcessingCampaign(Db, userId) = {} THEN {0}
                     ELSE getOldestProcessingCampaign(Db, userId) :
      \E o \in IF candidate = 0 \/ fail \in {"getOldestProcessingCampaign",
                                             "saveCampaignSearchResult(processing)"}
               THEN {[crit |-> LLMThrow, filter |-> [throws |-> TRUE, parsed |-> NoFilter],
                      rank |-> [throws |-> TRUE, ranked |-> <<>>]]}
               ELSE Outcomes :
        LET r == processHandler(Db, userId, candidate, o.crit, o.filter, o.rank, fail)
        IN /\ Commit(r.db)
           /\ last' = [op |-> "process", userId |-> userId, candidate |-> candidate,
                       fail |-> fail, code |-> r.code]
           /\ UNCHANGED <<now, cronSecret, inflight>>

\* The matches the outreach of this PATCH iterates over (none when the
\* request does not reach the outreach loop).
outreachMatches(db, userId, id, status) ==
  IF /\ users[userId].userType = "business"
     /\ campaignExists(db, id)
     /\ getCampaign(db, id).businessId = userId
     /\ status = "negotiating"
     /\ getCampaign(db, id).status # "negotiating"
     /\ getCampaign(db, id).matchedInfluencers # SqlNull
     /\ users[userId].email # NULL
  THEN getCampaign(db, id).matchedInfluencers[1]
  ELSE <<>>

PatchCampaign(Outcomes) ==
  \E userId \in {"biz1", "biz2", "inf1"}, id \in 1..MaxCampaigns,
     status \in PatchStatuses \cup {"processing"} :
    \E oc \in [1..Len(outreachMatches(Db, userId, id, status)) -> Outcomes] :
      LET r == campaignStatusHandler(Db, userId, id, status, oc, now)
      IN /\ Commit(r.db)
         /\ last' = [op |-> "patch", id |-> id, status |-> status,
                     code |-> r.code, outreach |-> r.outreach, created |-> r.created]
         /\ UNCHANGED <<now, cronSecret, inflight>>

\* The inquiry chat: the public POST, chat messages, close, the idle cron
\* and the influencer's decision.
Next ==
  \/ Tick
  \/ CreateInquiry({NULL}, Influencers, {NULL}, {"Hey! Thanks for reaching out."})
  \/ PostMessage
  \/ CloseChat
  \/ CronRun

Spec == Init /\ [][Next]_vars

\* Campaign matching: create and process.
InitCampaign == Init /\ cronSecret = NULL

NextProcess ==
  \/ Tick
  \/ CreateCampaign(MaxCampaigns)
  \/ ProcessCampaign(ProcessOutcomes, ProcessFailPoints)

SpecProcess == InitCampaign /\ [][NextProcess]_vars

\* Outreach: the campaign status PATCH on processed campaigns.
OutreachProcessOutcomes ==
  {o \in ProcessOutcomes :
     /\ o.crit # ""
     /\ o.filter.throws \/ o.filter.parsed.languages # <<>>
     /\ o.rank.throws}

\* The outreach iterations of this specification: the LLM calls all return
\* a text and no storage call throws, or the LLM calls all throw.
OutreachRuns ==
  {o \in OutreachOutcomes :
     \/ o.draft = LLMThrow /\ o.reply = LLMThrow /\ o.rec = LLMThrow
     \/ o.failAt = "none" /\ o.draft # LLMThrow /\ o.reply # LLMThrow /\ o.rec # LLMThrow}

NextCampaign ==
  \/ CreateCampaign(MaxOutreachCampaigns)
  \/ ProcessCampaign(OutreachProcessOutcomes, {"none"})
  \/ PatchCampaign(OutreachRuns)

SpecCampaign == InitCampaign /\ [][NextCampaign]_vars

\* The influencer's decision on public inquiries, which may name a campaign.
NextStatus ==
  \/ CreateCampaign(MaxCampaigns)
  \/ CreateInquiry({NULL}, {"inf1"}, {NULL}, {"Hey! Thanks for reaching out."})
  \/ UpdateStatus({NULL})

SpecStatus == InitCampaign /\ [][NextStatus]_vars

(***************************************************************************)
(* Properties of the inquiry chat (Spec).                                  *)
(***************************************************************************)
\* C1: a chat message POST (with content) to an inquiry whose chat is closed
\* is answered 400 "This conversation has been closed"; no message is
\* appended and no inquiry (so no lastBusinessMessageAt) changes.
C1_ClosedChatRejectsMessage ==
  \A id \in 1..Len(inquiries), content \in Contents \ {""},
     lang \in RequestLanguages, out \in ChatOutcomes :
    ~inquiries[id].chatActive =>
      LET r == handlePost(Db, id, content, lang, out, now)
      IN /\ r.code = 400
         /\ r.message = "This conversation has been closed"
         /\ r.db.messages = messages
         /\ r.db.inquiries = inquiries

\* A message was just refused on a closed chat that holds messages.
C1_Witness ==
  /\ last.op = "postMessage"
  /\ last.code = 400
  /\ last.message = "This conversation has been closed"
  /\ inquiryExists(Db, last.id)
  /\ ~inquiries[last.id].chatActive
  /\ getMessagesByInquiry(Db, last.id) # <<>>

\* C2: closing is idempotent.  A close request on a closed chat answers 200
\* with the stored inquiry and changes nothing; so a second close, whatever
\* its language and whatever its LLM call does, leaves the database of the
\* first.
C2_CloseIdempotent ==
  \A id \in 1..Len(inquiries), l1 \in RequestLanguages, l2 \in RequestLanguages,
     o1 \in RecommendationOutcomes, o2 \in RecommendationOutcomes :
    LET r1 == closeHandler(Db, id, l1, o1)
        r2 == closeHandler(r1.db, id, l2, o2)
    IN /\ r2.db = r1.db
       /\ r2.code = 200
       /\ r2.inquiry = <<r1.db.inquiries[id]>>
       /\ ~inquiries[id].chatActive =>
            /\ r1.db = Db
            /\ r1.inquiry = <<inquiries[id]>>

\* A close request was just answered on a chat that was closed before it.
C2_Witness ==
  /\ last.op = "close"
  /\ last.code = 200
  /\ ~last.active
  /\ ~inquiries[last.id].chatActive
  /\ inquiries[last.id].aiRecommendation # NULL

\* C3: a close request on an existing inquiry with an active chat is
\* answered 200 and leaves chatActive false and a non-empty recommendation:
\* the LLM's text, or the fallback of the resolved language when the call
\* throws or returns no content.  The status, every other column but these
\* two, the other inquiries and the messages are unchanged.
C3_CloseStoresRecommendation ==
  \A id \in 1..Len(inquiries), lang \in RequestLanguages,
     out \in RecommendationOutcomes :
    inquiries[id].chatActive =>
      LET r == closeHandler(Db, id, lang, out)
          language ==
            IF lang # NULL THEN lang
            ELSE IF users[inquiries[id].influencerId].languagePreference = "zh"
                 THEN "zh" ELSE "en"
          after == r.db.inquiries[id]
      IN /\ r.code = 200
         /\ after.chatActive = FALSE
         /\ after.aiRecommendation \notin {NULL, ""}
         /\ after.aiRecommendation =
              (IF out \in {LLMThrow, ""} THEN FALLBACK_RECOMMENDATION[language] ELSE out)
         /\ after.status = inquiries[id].status
         /\ after = [inquiries[id] EXCEPT !.chatActive = FALSE,
                                          !.aiRecommendation = after.aiRecommendation]
         /\ \A j \in 1..Len(inquiries) : j # id => r.db.inquiries[j] = inquiries[j]
         /\ Len(r.db.inquiries) = Len(inquiries)
         /\ r.db.messages = messages

\* A close request just closed an active chat with the fallback of the
\* influencer's language ("zh"): its LLM call failed.
C3_Witness ==
  /\ last.op = "close"
  /\ last.code = 200
  /\ last.active
  /\ ~inquiries[last.id].chatActive
  /\ inquiries[last.id].aiRecommendation = FALLBACK_RECOMMENDATION["zh"]

\* The inquiries that are idle at time t: chat active and the last business
\* message at or before t minus 10 minutes.
IdleAt(t) ==
  {i \in 1..Len(inquiries) :
     inquiries[i].chatActive /\ inquiries[i].lastBusinessMessageAt <= t - 10}

\* C4: an authorized cron run in which no step fails closes exactly the
\* idle inquiries: each ends with chatActive false and a recommendation,
\* every other inquiry is unchanged, and no message is touched.
C4_CronClosesExactlyIdle ==
  cronSecret # NULL =>
    \A method \in {"GET", "POST"},
       oc \in [1..Len(inquiries) -> RecommendationOutcomes] :
      LET r == cronHandler(Db, method, cronSecret, Bearer(cronSecret), NULL, oc, now)
      IN /\ r.code = 200
         /\ r.closed = IdleAt(now)
         /\ r.failed = {}
         /\ Len(r.db.inquiries) = Len(inquiries)
         /\ r.db.messages = messages
         /\ \A i \in 1..Len(inquiries) :
              IF i \in IdleAt(now)
              THEN /\ r.db.inquiries[i].chatActive = FALSE
                   /\ r.db.inquiries[i].aiRecommendation \notin {NULL, ""}
              ELSE r.db.inquiries[i] = inquiries[i]

\* A cron run without failure just closed an inquiry and left an active,
\* more recent one open.
C4_Witness ==
  /\ last.op = "cron"
  /\ last.code = 200
  /\ last.failed = {}
  /\ last.closed # {}
  /\ \E i \in 1..Len(inquiries) : i \notin last.closed /\ inquiries[i].chatActive
  /\ \A i \in last.closed : ~inquiries[i].chatActive

\* C5: the cron endpoint answers 405 to a method other than GET and POST
\* (before it looks at the secret), 401 to every GET or POST when
\* CRON_SECRET is unset or when neither the Authorization header is
\* "Bearer <secret>" nor the secret query parameter is the secret, and 200
\* otherwise; a request answered 405 or 401 changes nothing.
C5_CronAuthorization ==
  \A method \in Methods, authorization \in AuthorizationHeaders,
     querySecret \in QuerySecrets,
     oc \in [1..Len(inquiries) -> RecommendationOutcomes \cup {StorageThrows}] :
    LET r == cronHandler(Db, method, cronSecret, authorization, querySecret, oc, now)
        allowed == /\ cronSecret # NULL
                   /\ \/ authorization = <<"Bearer", cronSecret>>
                      \/ querySecret = cronSecret
    IN /\ method \notin {"GET", "POST"} => r.code = 405
       /\ (method \in {"GET", "POST"} /\ ~allowed) => r.code = 401
       /\ (method \in {"GET", "POST"} /\ allowed) => r.code = 200
       /\ r.code # 200 => r.db = Db

\* The cron just refused a request (a secret is set) while an idle chat
\* was waiting to be closed; it is still open.
C5_Witness ==
  /\ last.op = "cron"
  /\ last.code = 401
  /\ cronSecret # NULL
  /\ IdleAt(now) # {}

(***************************************************************************)
(* Properties of the inquiry status update (SpecStatus).                   *)
(***************************************************************************)
StatusNotes == {NULL, "note"}

\* C6: a status update of an inquiry with a campaignId sets that campaign's
\* status to "deal" for "approved" and to "denied" for "rejected", and
\* leaves the campaigns as they are for "pending" and "needs_info"; no other
\* campaign and no other campaign column changes; a status update of an
\* inquiry without campaignId changes no campaign.
C6_DecisionReachesCampaign ==
  \A id \in 1..Len(inquiries), status \in InquiryStatuses,
     message \in StatusNotes, emailOut \in EmailOutcomes :
    LET r == statusHandler(Db, "inf1", id, status, message, emailOut)
        campaignId == inquiries[id].campaignId
    IN IF campaignId = 0 THEN r.db.campaigns = campaigns
       ELSE IF status = "approved"
         THEN r.db.campaigns = [campaigns EXCEPT ![campaignId].status = "deal"]
       ELSE IF status = "rejected"
         THEN r.db.campaigns = [campaigns EXCEPT ![campaignId].status = "denied"]
       ELSE r.db.campaigns = campaigns

\* An inquiry of a campaign was just approved: its campaign is a deal, and
\* the other campaign is still as it was created.
C6_Witness ==
  /\ last.op = "status"
  /\ last.code = 200
  /\ last.status = "approved"
  /\ inquiries[last.id].campaignId # 0
  /\ campaigns[inquiries[last.id].campaignId].status = "deal"
  /\ \E c \in 1..Len(campaigns) : campaigns[c].status = "processing"

\* C7: the notification email never decides the outcome of a status update
\* of an existing inquiry: none is sent for "pending"; whatever the send
\* does (delivered, throws, not finished after 5 seconds), the new status
\* is stored, the answer is 200 with the updated inquiry, and the database
\* is the one a delivered email leaves.
C7_EmailNeverDecides ==
  \A id \in 1..Len(inquiries), status \in InquiryStatuses,
     message \in StatusNotes, emailOut \in EmailOutcomes :
    LET r == statusHandler(Db, "inf1", id, status, message, emailOut)
        d == statusHandler(Db, "inf1", id, status, message, "delivered")
    IN /\ (status = "pending" <=> r.email = "none")
       /\ r.code = 200
       /\ r.db.inquiries[id].status = status
       /\ r.inquiry = <<r.db.inquiries[id]>>
       /\ r.db = d.db
       /\ r.inquiry = d.inquiry

\* A status update whose email did not finish in time was just answered 200
\* and its status is stored.
C7_Witness ==
  /\ last.op = "status"
  /\ last.email = "timeout"
  /\ last.code = 200
  /\ inquiries[last.id].status = last.status
  /\ last.status = "rejected"

(***************************************************************************)
(* Properties of the campaign status PATCH and its outreach (SpecCampaign).*)
(***************************************************************************)
\* The matches a PATCH of campaign id iterates over, whatever the business
\* email: the stored list, none when the column is null.
StoredMatches(id) ==
  IF campaigns[id].matchedInfluencers = SqlNull THEN <<>>
  ELSE campaigns[id].matchedInfluencers[1]

\* The inquiry rows of db that the state does not hold yet.
NewInquiries(db) == (Len(inquiries) + 1)..Len(db.inquiries)

\* C8: a PATCH by the owner to "negotiating" of a campaign whose stored
\* status is not "negotiating" runs the outreach over its matched
\* influencers (every inquiry it adds is for one of them) and ends in
\* "waiting_response" when the outreach counts at least one created inquiry,
\* in "negotiating" otherwise; when no storage call throws, it counts every
\* inquiry row it adds.  A PATCH to "negotiating" of a campaign that is
\* "negotiating", and a PATCH to another allowed status, runs no outreach,
\* adds no inquiry and no message, and stores the requested status.
C8_NegotiatingRunsOutreach ==
  \A userId \in Businesses, id \in 1..Len(campaigns), status \in PatchStatuses :
    campaigns[id].businessId = userId =>
      \A oc \in [1..(IF status = "negotiating" THEN Len(StoredMatches(id)) ELSE 0)
                   -> OutreachRuns] :
        LET r == campaignStatusHandler(Db, userId, id, status, oc, now)
        IN /\ r.code = 200
           /\ IF status = "negotiating" /\ campaigns[id].status # "negotiating"
              THEN /\ r.outreach
                   /\ r.db.campaigns =
                        [campaigns EXCEPT ![id].status =
                           IF r.created > 0 THEN "waiting_response" ELSE "negotiating"]
                   /\ \A i \in NewInquiries(r.db) :
                        \E k \in 1..Len(StoredMatches(id)) :
                          r.db.inquiries[i].influencerId = StoredMatches(id)[k].id
                   /\ (\A k \in DOMAIN oc : oc[k].failAt = "none") =>
                        /\ r.created = Cardinality(NewInquiries(r.db))
                        /\ users[userId].email # NULL =>
                             r.created = Len(StoredMatches(id))
              ELSE /\ ~r.outreach
                   /\ r.created = 0
                   /\ r.db.inquiries = inquiries
                   /\ r.db.messages = messages
                   /\ r.db.campaigns = [campaigns EXCEPT ![id].status = status]

\* A PATCH to "negotiating" just ran the outreach, which counted one created
\* inquiry while one iteration failed after its createInquiry; the campaign
\* waits for the response.
C8_Witness ==
  /\ last.op = "patch"
  /\ last.status = "negotiating"
  /\ last.outreach
  /\ last.created = 1
  /\ Len(inquiries) = 2
  /\ campaigns[last.id].status = "waiting_response"

\* Inquiry i of db is a complete outreach inquiry of the campaign.
CompleteOutreach(db, i, campaignId, businessId) ==
  LET inquiry == db.inquiries[i]
      chat == getMessagesByInquiry(db, i)
  IN /\ inquiry.campaignId = campaignId
     /\ inquiry.businessId = businessId
     /\ inquiry.status = "pending"
     /\ inquiry.aiResponse \notin {NULL, ""}
     /\ inquiry.chatActive = FALSE
     /\ inquiry.aiRecommendation \notin {NULL, ""}
     /\ Len(chat) = 2
     /\ chat[1].role = "user"
     /\ chat[1].content = inquiry.message
     /\ chat[2].role = "assistant"
     /\ chat[2].content = inquiry.aiResponse

\* C9: every inquiry the outreach counts as created is complete.  An
\* iteration that counts adds one inquiry with the campaign's id and
\* businessId, status "pending", an aiResponse, chatActive false, an
\* aiRecommendation, and exactly two messages: the drafted message with role
\* "user", then the reply with role "assistant"; and the count a PATCH
\* returns is the number of complete inquiries it added.
C9_CountedOutreachComplete ==
  \A userId \in Businesses, id \in 1..Len(campaigns) :
    campaigns[id].businessId = userId =>
      /\ \A influencerId \in Influencers, o \in OutreachOutcomes :
           LET one == outreachOne(Db, id, userId, "biz", influencerId, o, now)
               i == Len(inquiries) + 1
           IN one.created = 1 =>
                /\ Len(one.db.inquiries) = i
                /\ CompleteOutreach(one.db, i, id, userId)
                /\ one.db.inquiries[i].influencerId = influencerId
                /\ one.db.inquiries[i].message = draftInquiryFromCampaign(o.draft)
      /\ \A oc \in [1..Len(StoredMatches(id)) -> OutreachRuns] :
           LET r == campaignStatusHandler(Db, userId, id, "negotiating", oc, now)
           IN r.created =
                Cardinality({i \in NewInquiries(r.db) :
                               CompleteOutreach(r.db, i, id, userId)})

\* A PATCH just counted two created inquiries; both are complete, and the
\* four messages are theirs.
C9_Witness ==
  /\ last.op = "patch"
  /\ last.created = 2
  /\ Len(inquiries) = 2
  /\ Len(messages) = 4
  /\ \A i \in 1..2 :
       CompleteOutreach(Db, i, last.id, campaigns[last.id].businessId)

(***************************************************************************)
(* Properties of the campaign process request (SpecProcess).               *)
(***************************************************************************)
\* The "processing" campaigns of a business.
Processing(businessId) ==
  {c \in 1..Len(campaigns) :
     campaigns[c].businessId = businessId /\ campaigns[c].status = "processing"}

\* C10: a process request of a business handles a "processing" campaign of
\* that business with the smallest createdAt; when no storage call throws,
\* it answers 200 and leaves that campaign "waiting_approval" with a
\* non-null searchCriteria and with the re-ranked list of the found
\* influencers in matchedInfluencers, whatever the three LLM steps do, and
\* changes nothing else.  With no "processing" campaign the answer is 404
\* and nothing changes.
C10_ProcessOldestCampaign ==
  \A userId \in Businesses :
    LET oldest == getOldestProcessingCampaign(Db, userId)
    IN IF Processing(userId) = {}
       THEN /\ oldest = {}
            /\ \A o \in ProcessOutcomes :
                 LET r == processHandler(Db, userId, 0, o.crit, o.filter, o.rank, "none")
                 IN r.code = 404 /\ r.db = Db
       ELSE /\ oldest # {}
            /\ \A candidate \in oldest, o \in ProcessOutcomes :
                 LET r == processHandler(Db, userId, candidate, o.crit, o.filter,
                                         o.rank, "none")
                     after == r.db.campaigns[candidate]
                     criteria == generateCriteria(o.crit)
                     found == findInfluencers(extractFilters(criteria, o.filter))
                 IN /\ candidate \in Processing(userId)
                    /\ \A d \in Processing(userId) :
                         campaigns[candidate].createdAt <= campaigns[d].createdAt
                    /\ r.code = 200
                    /\ after.status = "waiting_approval"
                    /\ after.searchCriteria # SqlNull
                    /\ after.matchedInfluencers # SqlNull
                    /\ after.matchedInfluencers[1] = rerankInfluencers(criteria, found, o.rank)
                    /\ Len(after.matchedInfluencers[1]) = Len(found)
                    /\ r.db.campaigns =
                         [campaigns EXCEPT ![candidate] =
                            [@ EXCEPT !.status = "waiting_approval",
                                      !.searchCriteria = after.searchCriteria,
                                      !.matchedInfluencers = after.matchedInfluencers]]
                    /\ r.db.inquiries = inquiries
                    /\ r.db.messages = messages

\* A process request just left the older of two campaigns of a business in
\* "waiting_approval" with criteria and two matched influencers; the newer
\* one is still "processing".
C10_Witness ==
  /\ last.op = "process"
  /\ last.code = 200
  /\ campaigns[last.candidate].status = "waiting_approval"
  /\ campaigns[last.candidate].searchCriteria # SqlNull
  /\ Len(campaigns[last.candidate].matchedInfluencers[1]) = 2
  /\ \E d \in Processing(last.userId) :
       campaigns[d].createdAt > campaigns[last.candidate].createdAt

(***************************************************************************)
(* rerankInfluencers as a function of its inputs (SpecRerank).             *)
(***************************************************************************)
MaxRerank == 3

\* The influencers findInfluencers can hand over: a name, a username with
\* "test" in mixed case, a blank name, no username, neither.
RerankCandidates ==
  {[id |-> "inf1", username |-> <<"a">>, name |-> <<"a", "n">>],
   [id |-> "inf2", username |-> <<"T", "e", "S", "t", "2">>, name |-> <<>>],
   [id |-> "inf3", username |-> <<"b">>, name |-> <<" ">>],
   [id |-> "inf4", username |-> <<>>, name |-> <<"b", "o">>]}

RerankInputs == UNION {[1..n -> RerankCandidates] : n \in 0..MaxRerank}

\* What the LLM call does: it throws (or its content does not parse), or it
\* returns ranked items; an item without score has score <<>>.
RerankOutcomes ==
  {[throws |-> TRUE, ranked |-> <<>>],
   [throws |-> FALSE, ranked |-> <<>>],
   [throws |-> FALSE, ranked |-> <<[id |-> "inf4", score |-> <<1>>]>>],
   [throws |-> FALSE, ranked |-> <<[id |-> "inf1", score |-> <<1>>],
                                   [id |-> "inf4", score |-> <<1>>]>>],
   [throws |-> FALSE, ranked |-> <<[id |-> "inf1", score |-> <<>>],
                                   [id |-> "inf4", score |-> <<2>>],
                                   [id |-> "inf3", score |-> <<3>>]>>],
   [throws |-> FALSE, ranked |-> <<[id |-> "inf1", score |-> <<2>>],
                                   [id |-> "inf1", score |-> <<0>>],
                                   [id |-> "inf4", score |-> <<1>>]>>]}

InitRerank ==
  /\ inquiries = <<>>
  /\ messages = <<>>
  /\ campaigns = <<>>
  /\ now = 0
  /\ cronSecret = NULL
  /\ inflight = NoRequests
  /\ \E criteria \in {NULL, "- fitness creators"}, influencers \in RerankInputs,
        out \in RerankOutcomes :
       last = [op |-> "rerankInput", criteria |-> criteria,
               influencers |-> influencers, out |-> out]

Rerank ==
  /\ last.op = "rerankInput"
  /\ last' = [op |-> "rerank", criteria |-> last.criteria,
              influencers |-> last.influencers, out |-> last.out,
              result |-> rerankInfluencers(last.criteria, last.influencers, last.out)]
  /\ UNCHANGED <<inquiries, messages, campaigns, now, cronSecret, inflight>>

NextRerank == Rerank

SpecRerank == InitRerank /\ [][NextRerank]_vars

\* The score the item of the LLM answer for an id carries (the last item of
\* that id), 0 when there is none or it has no score.
LlmScore(ranked, id) ==
  IF \E k \in 1..Len(ranked) : ranked[k].id = id
  THEN LET k == CHOOSE x \in 1..Len(ranked) :
                  /\ ranked[x].id = id
                  /\ \A y \in (x + 1)..Len(ranked) : ranked[y].id # id
       IN IF ranked[k].score = <<>> THEN 0 ELSE ranked[k].score[1]
  ELSE 0

\* str without its leading and trailing blanks is empty.
Blank(str) == \A k \in 1..Len(str) : str[k] = " "

\* str holds "test" in any mix of cases.
HoldsTest(str) ==
  \E k \in 1..(Len(str) - 3) :
    /\ str[k] \in {"t", "T"}
    /\ str[k + 1] \in {"e", "E"}
    /\ str[k + 2] \in {"s", "S"}
    /\ str[k + 3] \in {"t", "T"}

\* The adjusted score of an influencer as the claim words it.
ClaimedScore(inf, ranked) ==
  LET display == IF inf.name # <<>> THEN inf.name ELSE inf.username
  IN IF Blank(display) THEN -2
     ELSE IF HoldsTest(display) THEN -1
     ELSE LlmScore(ranked, inf.id)

\* C11: rerankInfluencers returns its input unchanged when criteria is
\* null, the input is empty or the LLM call (or its parsing) fails;
\* otherwise its result is the input stably sorted by non-increasing
\* adjusted score: a rearrangement p of the input positions, each influencer
\* carrying its adjusted score (-2 blank display name, -1 a display name
\* holding "test", else the LLM's score or 0), scores non-increasing, equal
\* scores in input order.
C11_RerankStableSort ==
  last.op = "rerank" =>
    LET influencers == last.influencers
        result == last.result
        n == Len(influencers)
    IN IF last.criteria = NULL \/ n = 0 \/ last.out.throws
       THEN result = influencers
       ELSE /\ Len(result) = n
            /\ \E p \in [1..n -> 1..n] :
                 /\ \A i, j \in 1..n : i # j => p[i] # p[j]
                 /\ \A k \in 1..n :
                      /\ result[k].id = influencers[p[k]].id
                      /\ result[k].username = influencers[p[k]].username
                      /\ result[k].name = influencers[p[k]].name
                      /\ result[k].score = ClaimedScore(influencers[p[k]], last.out.ranked)
                 /\ \A i, j \in 1..n :
                      i < j =>
                        /\ result[i].score >= result[j].score
                        /\ result[i].score = result[j].score => p[i] < p[j]

\* A re-ranking just moved a scored influencer in front of an unknown and a
\* test one, and kept two influencers of equal score in input order.
C11_Witness ==
  /\ last.op = "rerank"
  /\ ~last.out.throws
  /\ last.criteria # NULL
  /\ Len(last.result) = 3
  /\ last.result # last.influencers
  /\ last.result[1].score = last.result[2].score
  /\ last.result[1].id # last.result[2].id
  /\ last.result[3].score < 0

(***************************************************************************)
(* Properties of the campaign create request (SpecProcess).                *)
(***************************************************************************)
\* Every body, the ones with one of status and businessId included.
AnyCampaignBody ==
  [valid : BOOLEAN, normalizedValid : BOOLEAN,
   status : {NULL, "processing", "deal", "waiting_approval"},
   businessId : {NULL, "biz1", "biz2", "inf1"}]

\* C12: a campaign create request by a business user with a body that
\* passes validation appends one campaign with status "processing" and the
\* businessId of the user, whatever status and businessId the body names,
\* and leaves the other campaigns alone; a request by another user (403) or
\* with a body failing validation (400) changes nothing.  So every stored
\* campaign belongs to a business user.
C12_CreatedCampaignProcessing ==
  /\ \A userId \in UserIds, body \in AnyCampaignBody :
       LET r == createCampaignHandler(Db, userId, body, now)
       IN IF users[userId].userType # "business"
            THEN r.code = 403 /\ r.db = Db
          ELSE IF ~body.valid \/ ~body.normalizedValid
            THEN r.code = 400 /\ r.db = Db
          ELSE /\ r.code = 201
               /\ Len(r.db.campaigns) = Len(campaigns) + 1
               /\ SubSeq(r.db.campaigns, 1, Len(campaigns)) = campaigns
               /\ r.db.campaigns[Len(campaigns) + 1].status = "processing"
               /\ r.db.campaigns[Len(campaigns) + 1].businessId = userId
               /\ r.db.inquiries = inquiries
               /\ r.db.messages = messages
  /\ \A c \in 1..Len(campaigns) : campaigns[c].businessId \in Businesses
  /\ last.op = "createCampaign" /\ last.code = 201 =>
       /\ campaigns[Len(campaigns)].status = "processing"
       /\ campaigns[Len(campaigns)].businessId = last.userId

\* biz1 just created a campaign with a body naming status "deal" and the
\* business biz2: the campaign is processing and biz1's.
C12_Witness ==
  /\ last.op = "createCampaign"
  /\ last.code = 201
  /\ last.userId = "biz1"
  /\ last.bodyStatus = "deal"
  /\ campaigns[Len(campaigns)].status = "processing"
  /\ campaigns[Len(campaigns)].businessId = "biz1"

(***************************************************************************)
(* The public inquiry POST by guests, businesses and influencers           *)
(* (SpecInquiry).                                                          *)
(***************************************************************************)
NextInquiry ==
  \/ Tick
  \/ CreateInquiry({NULL} \cup UserIds, Influencers, RequestLanguages, InquiryOutcomes)

SpecInquiry == InitCampaign /\ [][NextInquiry]_vars

\* The valid bodies of a public inquiry POST, a businessId of the body
\* included.
InquiryBodies ==
  [valid : {TRUE}, influencerId : Influencers, campaignId : 0..Len(campaigns),
   businessId : {NULL, "biz1", "inf1"}, message : {"brief"},
   businessEmail : {"guest"}]

\* C13: a public inquiry POST with a valid body answers 200 and appends one
\* inquiry with status "pending", chatActive true, lastBusinessMessageAt the
\* current time and aiResponse the generated first reply (the LLM's text,
\* or the fallback of the resolved language), and one message, of that
\* inquiry, with role "assistant" and the same content.  businessId is the
\* session user's id when that user is a business and null otherwise,
\* whatever the body names; businessEmail is a business user's email when
\* it has one and the body's otherwise.  Nothing else changes.
C13_PublicInquiryCreated ==
  \A sessionUser \in {NULL} \cup UserIds, body \in InquiryBodies,
     lang \in RequestLanguages, out \in InquiryOutcomes :
    LET r == inquiryPost(Db, sessionUser, body, lang, out, now)
        id == Len(inquiries) + 1
        inquiry == r.db.inquiries[id]
        business == sessionUser \in Businesses
        language ==
          IF lang # NULL THEN lang
          ELSE IF users[body.influencerId].languagePreference = "zh" THEN "zh" ELSE "en"
        reply == IF out \in {LLMThrow, ""} THEN FALLBACK_INQUIRY_RESPONSE[language] ELSE out
    IN /\ r.code = 200
       /\ r.message = reply
       /\ Len(r.db.inquiries) = id
       /\ SubSeq(r.db.inquiries, 1, Len(inquiries)) = inquiries
       /\ inquiry.status = "pending"
       /\ inquiry.chatActive = TRUE
       /\ inquiry.lastBusinessMessageAt = now
       /\ inquiry.aiResponse = reply
       /\ inquiry.aiResponse \notin {NULL, ""}
       /\ inquiry.aiRecommendation = NULL
       /\ inquiry.influencerId = body.influencerId
       /\ inquiry.businessId = (IF business THEN sessionUser ELSE NULL)
       /\ inquiry.businessEmail =
            (IF business /\ users[sessionUser].email # NULL
             THEN users[sessionUser].email ELSE body.businessEmail)
       /\ r.db.messages =
            Append(messages, [inquiryId |-> id, role |-> "assistant", content |-> reply])
       /\ getMessagesByInquiry(r.db, id) =
            <<[inquiryId |-> id, role |-> "assistant", content |-> reply]>>
       /\ r.db.campaigns = campaigns

\* A business user with an email just posted an inquiry to the influencer
\* who prefers "zh" while the LLM failed: the inquiry is the business's,
\* pending and open, and its one message is the "zh" fallback.
C13_Witness ==
  /\ last.op = "createInquiry"
  /\ last.code = 200
  /\ inquiries[last.id].businessId = "biz1"
  /\ inquiries[last.id].businessEmail = users["biz1"].email
  /\ inquiries[last.id].influencerId = "inf2"
  /\ inquiries[last.id].status = "pending"
  /\ inquiries[last.id].chatActive
  /\ inquiries[last.id].aiResponse = FALLBACK_INQUIRY_RESPONSE["zh"]
  /\ getMessagesByInquiry(Db, last.id) =
       <<[inquiryId |-> last.id, role |-> "assistant",
          content |-> FALLBACK_INQUIRY_RESPONSE["zh"]]>>

(***************************************************************************)
(* The frame of a chat message POST (Spec).                                *)
(***************************************************************************)
\* C14: a chat message POST with content to an inquiry with an active chat,
\* run as a whole, answers 200, appends one "user" message with the content
\* and then one "assistant" message with the reply (the fallback chat reply
\* of the resolved language when the LLM throws or returns nothing), sets
\* lastBusinessMessageAt of the inquiry to the current time and changes no
\* other column, no other inquiry and no earlier message.
C14_ChatPostFrame ==
  \A id \in 1..Len(inquiries), content \in Contents \ {""},
     lang \in RequestLanguages, out \in ChatOutcomes :
    inquiries[id].chatActive =>
      LET r == handlePost(Db, id, content, lang, out, now)
          language ==
            IF lang # NULL THEN lang
            ELSE IF users[inquiries[id].influencerId].languagePreference = "zh"
                 THEN "zh" ELSE "en"
          reply == IF out \in {LLMThrow, ""} THEN FALLBACK_CHAT_RESPONSE[language] ELSE out
      IN /\ r.code = 200
         /\ r.db.messages =
              messages \o <<[inquiryId |-> id, role |-> "user", content |-> content],
                            [inquiryId |-> id, role |-> "assistant", content |-> reply]>>
         /\ r.db.inquiries = [inquiries EXCEPT ![id].lastBusinessMessageAt = now]
         /\ r.db.inquiries[id].status = inquiries[id].status
         /\ r.db.inquiries[id].chatActive = inquiries[id].chatActive
         /\ r.db.inquiries[id].aiResponse = inquiries[id].aiResponse
         /\ r.db.inquiries[id].aiRecommendation = inquiries[id].aiRecommendation
         /\ r.db.campaigns = campaigns

\* A chat message was just answered, later than the inquiry was created:
\* the last two messages are the user's and the assistant's, the chat is
\* open and lastBusinessMessageAt is the current time.
C14_Witness ==
  /\ last.op = "postMessage"
  /\ last.code = 200
  /\ now > 0
  /\ inquiries[last.id].chatActive
  /\ inquiries[last.id].lastBusinessMessageAt = now
  /\ Len(messages) >= 3
  /\ messages[Len(messages) - 1] =
       [inquiryId |-> last.id, role |-> "user", content |-> "hello"]
  /\ messages[Len(messages)].role = "assistant"
  /\ messages[Len(messages)].inquiryId = last.id

(***************************************************************************)
(* Validation of the campaign status PATCH (SpecCampaign).                 *)
(***************************************************************************)
\* C15: a campaign status PATCH by a user who is no business is answered
\* 403; else one whose target status is not one of waiting_approval,
\* negotiating, waiting_response, deal, denied ("processing" is not) is
\* answered 400; else one for a campaign that does not exist or belongs to
\* another business is answered 404; each of these leaves every campaign,
\* inquiry and message as it was.
C15_InvalidPatchChangesNothing ==
  \A userId \in UserIds, id \in 1..(Len(campaigns) + 1),
     status \in {"processing", "waiting_approval", "negotiating", "waiting_response",
                 "deal", "denied", "archived"} :
    LET notBusiness == userId \notin Businesses
        badStatus == status \notin {"waiting_approval", "negotiating",
                                    "waiting_response", "deal", "denied"}
        notFound == id > Len(campaigns) \/ campaigns[id].businessId # userId
    IN (notBusiness \/ badStatus \/ notFound) =>
         LET r == campaignStatusHandler(Db, userId, id, status, <<>>, now)
         IN /\ r.code = (IF notBusiness THEN 403 ELSE IF badStatus THEN 400 ELSE 404)
            /\ r.db = Db
            /\ ~r.outreach
            /\ r.created = 0

\* A business just asked to negotiate the matched campaign of another
\* business: 404, the campaign still waits for approval and no inquiry
\* exists.
C15_Witness ==
  /\ last.op = "patch"
  /\ last.code = 404
  /\ last.status = "negotiating"
  /\ campaignExists(Db, last.id)
  /\ campaigns[last.id].status = "waiting_approval"
  /\ campaigns[last.id].matchedInfluencers # SqlNull
  /\ inquiries = <<>>

(***************************************************************************)
(* The chat handlers step by step (SpecRace): a handler is suspended at    *)
(* each await, and the steps of a chat message POST, a close request and a *)
(* cron run interleave.  Each storage call is one atomic SQL statement.    *)
(***************************************************************************)
\* messages/index.ts 40-47: the handler reads the inquiry and checks
\* chatActive; a closed chat is answered 400 at once.
PostRead ==
  /\ inflight.post.pc = "none"
  /\ \E id \in 1..Len(inquiries) :
       IF getInquiry(Db, id).chatActive
       THEN /\ inflight' = [inflight EXCEPT !.post =
                              [pc |-> "addMessage(user)", id |-> id, content |-> "hello"]]
            /\ last' = [op |-> "postRead", id |-> id, code |-> 0]
       ELSE /\ inflight' = inflight
            /\ last' = [op |-> "postRead", id |-> id, code |-> 400]
  /\ UNCHANGED <<inquiries, messages, campaigns, now, cronSecret>>

\* messages/index.ts 50-54
PostAddUserMessage ==
  /\ inflight.post.pc = "addMessage(user)"
  /\ Commit(addMessage(Db, [inquiryId |-> inflight.post.id, role |-> "user",
                            content |-> inflight.post.content]))
  /\ inflight' = [inflight EXCEPT !.post.pc = "updateLastBusinessMessage"]
  /\ last' = [op |-> "postAddUserMessage", id |-> inflight.post.id]
  /\ UNCHANGED <<now, cronSecret>>

\* messages/index.ts 56
PostUpdateLastBusinessMessage ==
  /\ inflight.post.pc = "updateLastBusinessMessage"
  /\ Commit(updateLastBusinessMessage(Db, inflight.post.id, now))
  /\ inflight' = [inflight EXCEPT !.post.pc = "addMessage(assistant)"]
  /\ last' = [op |-> "postUpdateLastBusinessMessage", id |-> inflight.post.id]
  /\ UNCHANGED <<now, cronSecret>>

\* messages/index.ts 59-107: the history and the influencer are read, the
\* LLM answers, the reply is stored and the request is answered.
PostAddAssistantMessage ==
  /\ inflight.post.pc = "addMessage(assistant)"
  /\ \E out \in {LLMThrow, "Got it on the timeline."} :
       LET id == inflight.post.id
           language == resolvedLanguage(NULL, getInquiry(Db, id).influencerId)
       IN Commit(addMessage(Db, [inquiryId |-> id, role |-> "assistant",
                                 content |-> generateChatResponse(out, language)]))
  /\ inflight' = [inflight EXCEPT !.post = NoRequests.post]
  /\ last' = [op |-> "postAddAssistantMessage", id |-> inflight.post.id]
  /\ UNCHANGED <<now, cronSecret>>

\* close.ts 27-36: the handler reads the inquiry; a closed chat is answered
\* with the stored inquiry at once.
CloseRead ==
  /\ inflight.close.pc = "none"
  /\ \E id \in 1..Len(inquiries) :
       /\ inflight' = IF getInquiry(Db, id).chatActive
                      THEN [inflight EXCEPT !.close = [pc |-> "closeInquiryChat", id |-> id]]
                      ELSE inflight
       /\ last' = [op |-> "closeRead", id |-> id,
                   active |-> getInquiry(Db, id).chatActive]
  /\ UNCHANGED <<inquiries, messages, campaigns, now, cronSecret>>

\* close.ts 39-84: the LLM recommends and closeInquiryChat stores it.
CloseInquiryChat ==
  /\ inflight.close.pc = "closeInquiryChat"
  /\ \E out \in {LLMThrow, "**APPROVE** good fit"} :
       LET id == inflight.close.id
           language == resolvedLanguage(NULL, getInquiry(Db, id).influencerId)
       IN Commit(closeInquiryChat(Db, id, generateRecommendation(out, language)))
  /\ inflight' = [inflight EXCEPT !.close = NoRequests.close]
  /\ last' = [op |-> "closeInquiryChat", id |-> inflight.close.id]
  /\ UNCHANGED <<now, cronSecret>>

\* close-idle-chats.ts 31-32: an authorized run scans the idle open
\* inquiries; with none it answers at once.
CronScan ==
  /\ inflight.cron.pc = "none"
  /\ getAuthorized(cronSecret, Bearer(cronSecret), NULL)
  /\ LET idleInquiries == getIdleOpenInquiries(Db, now - IDLE_MINUTES)
     IN /\ inflight' = IF idleInquiries = <<>> THEN inflight
                       ELSE [inflight EXCEPT !.cron = [pc |-> "loop", todo |-> idleInquiries]]
        /\ last' = [op |-> "cronScan", idle |-> idleInquiries]
  /\ UNCHANGED <<inquiries, messages, campaigns, now, cronSecret>>

\* close-idle-chats.ts 36-77: one iteration of the loop, for the scanned
\* inquiry: the LLM recommends and closeInquiryChat stores it.
CronCloseInquiryChat ==
  /\ inflight.cron.pc = "loop"
  /\ \E out \in {LLMThrow, "**APPROVE** good fit"} :
       LET id == Head(inflight.cron.todo)
           language == IF users[getInquiry(Db, id).influencerId].languagePreference = "zh"
                       THEN "zh" ELSE "en"
       IN Commit(closeInquiryChat(Db, id, generateRecommendation(out, language)))
  /\ inflight' = IF Tail(inflight.cron.todo) = <<>>
                 THEN [inflight EXCEPT !.cron = NoRequests.cron]
                 ELSE [inflight EXCEPT !.cron.todo = Tail(@)]
  /\ last' = [op |-> "cronCloseInquiryChat", id |-> Head(inflight.cron.todo)]
  /\ UNCHANGED <<now, cronSecret>>

InitRace == Init /\ cronSecret # NULL

MaxRaceInquiries == 1

NextRace ==
  \/ Tick
  \/ /\ Len(inquiries) < MaxRaceInquiries
     /\ CreateInquiry({NULL}, Influencers, {NULL}, {"Hey! Thanks for reaching out."})
  \/ UpdateStatus({NULL})
  \/ PostRead
  \/ PostAddUserMessage
  \/ PostUpdateLastBusinessMessage
  \/ PostAddAssistantMessage
  \/ CloseRead
  \/ CloseInquiryChat
  \/ CronScan
  \/ CronCloseInquiryChat

SpecRace == InitRace /\ [][NextRace]_vars

(***************************************************************************)
(* Properties of the interleaved chat handlers (SpecRace).                 *)
(***************************************************************************)
\* C16: no step appends a message to an inquiry whose chatActive is false
\* when the step is taken.
C16_NoMessageAfterClose ==
  [][\A k \in (Len(messages) + 1)..Len(messages') :
       messages'[k].inquiryId \in 1..Len(inquiries) =>
         inquiries[messages'[k].inquiryId].chatActive]_vars

\* C17: when the cron applies a close to an inquiry, the inquiry's last
\* business message is at least 10 minutes old.
C17_CronSparesRecentMessage ==
  [][last'.op = "cronCloseInquiryChat" =>
       inquiries[last'.id].lastBusinessMessageAt <= now - 10]_vars

\* C18: chatActive never goes back from false to true, and an inquiry whose
\* chatActive is false has a non-null aiRecommendation.
C18_ClosedStaysClosed ==
  /\ [](\A i \in 1..Len(inquiries) :
          ~inquiries[i].chatActive => inquiries[i].aiRecommendation # NULL)
  /\ [][\A i \in 1..Len(inquiries) :
          ~inquiries[i].chatActive => ~inquiries'[i].chatActive]_vars

\* The status of a closed inquiry was just updated: it is still closed and
\* has its recommendation.
C18_Witness ==
  /\ last.op = "status"
  /\ last.code = 200
  /\ last.status = "approved"
  /\ ~inquiries[last.id].chatActive
  /\ inquiries[last.id].aiRecommendation # NULL
  /\ inquiries[last.id].status = "approved"

(***************************************************************************)
(* Repeated outreach (SpecCampaign).                                       *)
(***************************************************************************)
\* C19: no two inquiries of the same campaign are for the same influencer.
C19_OneInquiryPerMatch ==
  \A i, j \in 1..Len(inquiries) :
    (/\ i # j
     /\ inquiries[i].campaignId # 0
     /\ inquiries[i].campaignId = inquiries[j].campaignId)
      => inquiries[i].influencerId # inquiries[j].influencerId

=============================================================================
